---- MODULE Spec2Model ----
(***************************************************************************)
(* A model of the X-Ray instrumentation client (src/src/client.ts).        *)
(*                                                                         *)
(* The client is JavaScript: one thread, and an async method runs          *)
(* atomically from one `await` to the next.  Every action below is one     *)
(* such atomic segment.  The caller's code (the stage functions passed to  *)
(* run and step) and the network are the environment: they call run and    *)
(* step, settle stage functions and answer fetches in any order.           *)
(*                                                                         *)
(* Identifiers made by uuidv4() are the invocation numbers.  Timestamps    *)
(* are reduced to "end time set or not"; stepType and stepName are copied  *)
(* into the record unread and are left out.                                *)
(*                                                                         *)
(* The reference backend (src/unnamed/part_002) is modelled by its three   *)
(* ingest endpoints acting on the tables of its SQLite database.           *)
(*                                                                         *)
(* The facade `xray` (src/src/index.ts) is modelled by configure, which    *)
(* replaces the client that xray.run and xray.step call.                   *)
(***************************************************************************)
EXTENDS Naturals, Integers, Sequences, FiniteSets, TLC

\* Bounds of the model: the calls of run and step the caller makes, and the
\* length of the arrays it passes and returns; the rows the candidates table
\* of the backend may hold
MaxCalls == 3
MaxLen == 1
MaxRows == 2
\* the calls of xray.configure
MaxConfigures == 2

RunIds == 1..MaxCalls
StepIds == 1..MaxCalls

\* `null` for currentRunId / currentRun
Null == 0

VARIABLES
  cfg,                \* this.config (fixed at construction)
  currentRunId,       \* this.currentRunId
  currentRun,         \* this.currentRun: a reference to a Run object
  stepPosition,       \* this.stepPosition
  degraded,           \* this.degraded
  pendingSteps,       \* this.pendingSteps
  pendingCandidates,  \* this.pendingCandidates
  runs,               \* per run invocation: its Run object and its locals
  steps,              \* per step invocation: its locals
  net,                \* every fetch() started, in order, with its outcome
  emitted,            \* every record step() handed to ingestStep / ingestCandidates
  db,                 \* the backend's SQLite database: tables runs, steps, candidates
  facade              \* index.ts: the shared defaultConfig object, the partial
                      \* configurations configure was given, and the clients
                      \* that defaultClient no longer names

vars == <<cfg, currentRunId, currentRun, stepPosition, degraded, pendingSteps,
          pendingCandidates, runs, steps, net, emitted, db, facade>>

----------------------------------------------------------------------------
\* Values

CaptureLevels == {"NONE", "SUMMARY", "FULL"}
Unset == "unset"

NoError == [type |-> "none", id |-> 0]
StageError == [type |-> "stage", id |-> 0]
\* the Error thrown by the i-th fetch (rejection or non-ok response)
TransportError(i) == [type |-> "transport", id |-> i]

NoValue == [shape |-> "none", len |-> 0]
\* a value a stage function returns has a shape (an array, an object with a
\* length, a scalar) and a length; the caller's stage functions return arrays
Results == {[shape |-> "array", len |-> MaxLen]}

NoOutcome == [kind |-> "none", val |-> NoValue, err |-> NoError]
Ret(v) == [kind |-> "ret", val |-> v, err |-> NoError]
Raise(e) == [kind |-> "raise", val |-> NoValue, err |-> e]

\* the candidate list of length n
CandList(n) == [i \in 1..n |-> i]
NoList == [given |-> FALSE, list |-> <<>>]
GivenList(n) == [given |-> TRUE, list |-> CandList(n)]
NoExtras == [metrics |-> Unset, artifacts |-> Unset]
SomeExtras == [metrics |-> "m", artifacts |-> "a"]

\* StepOptions the caller passes (metrics and artifacts are opaque: absent
\* or one fixed value)
StepOpts ==
  {[captureLevel |-> Unset, candidates |-> NoList, extras |-> NoExtras],
   [captureLevel |-> "SUMMARY", candidates |-> GivenList(MaxLen + 1), extras |-> SomeExtras],
   [captureLevel |-> "FULL", candidates |-> GivenList(MaxLen + 1), extras |-> SomeExtras]}
NoOpts == [captureLevel |-> Unset, candidates |-> NoList,
           extras |-> [metrics |-> Unset, artifacts |-> Unset]]

\* every combination of StepOptions and every shape of result, with lengths
\* up to MaxLen + 1
Lengths == 0..(MaxLen + 1)
AllStepOpts == [captureLevel : CaptureLevels \cup {Unset},
                candidates : {NoList} \cup {GivenList(n) : n \in Lengths},
                extras : {NoExtras, SomeExtras}]
AllResults == [shape : {"array", "lenobj"}, len : Lengths]
                \cup {[shape |-> "scalar", len |-> 0]}

\* XRayConfig: apiUrl configured or not, and the three settings the client
\* reads; the default capture level is the built-in NONE or a configured FULL
Configs == [apiUrl : BOOLEAN, enableAsyncIngestion : BOOLEAN,
            degradeOnError : BOOLEAN, defaultCaptureLevel : {"NONE", "FULL"}]
\* every XRayConfig
AllConfigs == [apiUrl : BOOLEAN, enableAsyncIngestion : BOOLEAN,
               degradeOnError : BOOLEAN, defaultCaptureLevel : CaptureLevels]

\* rationals <<numerator, denominator>> for dropRatio
RatZero == <<0, 1>>
RatOne == <<1, 1>>
RatEq(a, b) == a[1] * b[2] = b[1] * a[2]

InitRun == [pc |-> "idle", endedAt |-> FALSE, endSets |-> 0, fnState |-> "notCalled",
            fnCalls |-> 0, result |-> NoValue, error |-> NoError, ingestErr |-> NoError,
            flushCalls |-> 0, candidatesToFlush |-> <<>>, completion |-> NoOutcome,
            outcome |-> NoOutcome]

InitStep == [pc |-> "idle", runAtCall |-> Null, position |-> 0, captureLevel |-> Unset,
             opts |-> NoOpts, candidatesIn |-> 0, fnCalls |-> 0, fnOutcome |-> NoOutcome,
             result |-> NoValue, error |-> NoError, outcome |-> NoOutcome]

\* the whole state as one record, so that a method is a function on it
W == [currentRunId |-> currentRunId, currentRun |-> currentRun,
      stepPosition |-> stepPosition, degraded |-> degraded,
      pendingSteps |-> pendingSteps, pendingCandidates |-> pendingCandidates,
      runs |-> runs, steps |-> steps, net |-> net, emitted |-> emitted]

Apply(w) ==
  /\ currentRunId' = w.currentRunId
  /\ currentRun' = w.currentRun
  /\ stepPosition' = w.stepPosition
  /\ degraded' = w.degraded
  /\ pendingSteps' = w.pendingSteps
  /\ pendingCandidates' = w.pendingCandidates
  /\ runs' = w.runs
  /\ steps' = w.steps
  /\ net' = w.net
  /\ emitted' = w.emitted
  /\ UNCHANGED <<cfg, db, facade>>

RunOwner(r) == [type |-> "run", id |-> r]
StepOwner(s) == [type |-> "step", id |-> s]
FlushOwner(r) == [type |-> "flush", id |-> r]

\* the promises an owner awaits have all settled
Settled(owner) ==
  \A i \in DOMAIN net : net[i].owner = owner => net[i].outcome # "pending"

\* fetch(url, ...): the call is started and its promise is pending
fetch(w, kind, owner, key, payload) ==
  [w EXCEPT !.net = Append(@, [kind |-> kind, owner |-> owner, key |-> key,
                               payload |-> payload, outcome |-> "pending"])]

----------------------------------------------------------------------------
\* Transport

handleDegradation(w) ==
  IF ~w.degraded THEN [w EXCEPT !.degraded = TRUE] ELSE w

\* ingestRun without the test of this.degraded
ingestRunIgnoringDegraded(w, r, run) ==
  IF ~cfg.apiUrl
  THEN w
  ELSE fetch(w, "run", RunOwner(r), run, [ended |-> w.runs[run].endedAt])

\* ingestRun up to its await; run is the Run object that is sent
ingestRun(w, r, run) ==
  IF w.degraded \/ ~cfg.apiUrl
  THEN w
  ELSE fetch(w, "run", RunOwner(r), run, [ended |-> w.runs[run].endedAt])

\* ingestStep without the `return` after the push
ingestStepPushAndSend(w, owner, step) ==
  IF w.degraded \/ ~cfg.apiUrl
  THEN w
  ELSE IF cfg.enableAsyncIngestion
       THEN fetch([w EXCEPT !.pendingSteps = Append(@, step)],
                  "step", owner, step.stepId, step)
       ELSE fetch(w, "step", owner, step.stepId, step)

\* ingestStep without the test of config.apiUrl
ingestStepWithoutEndpointTest(w, owner, step) ==
  IF w.degraded
  THEN w
  ELSE IF cfg.enableAsyncIngestion
       THEN [w EXCEPT !.pendingSteps = Append(@, step)]
       ELSE fetch(w, "step", owner, step.stepId, step)

\* ingestStep up to its await
ingestStep(w, owner, step) ==
  IF w.degraded \/ ~cfg.apiUrl
  THEN w
  ELSE IF cfg.enableAsyncIngestion
       THEN [w EXCEPT !.pendingSteps = Append(@, step)]
       ELSE fetch(w, "step", owner, step.stepId, step)

\* ingestCandidates queueing in both modes
ingestCandidatesQueueing(w, owner, stepId, candidates) ==
  IF w.degraded \/ ~cfg.apiUrl
  THEN w
  ELSE [w EXCEPT !.pendingCandidates =
                    Append(@, [stepId |-> stepId, candidates |-> candidates])]

\* ingestCandidates up to its await
ingestCandidates(w, owner, stepId, candidates) ==
  IF w.degraded \/ ~cfg.apiUrl
  THEN w
  ELSE IF cfg.enableAsyncIngestion
       THEN [w EXCEPT !.pendingCandidates =
                         Append(@, [stepId |-> stepId, candidates |-> candidates])]
       ELSE fetch(w, "candidates", owner, stepId, candidates)

\* the catch blocks degrading whatever config.degradeOnError is
fetchSettledAlwaysDegrading(w, i, ok) ==
  LET w1 == [w EXCEPT !.net[i].outcome = IF ok THEN "ok" ELSE "fail"]
      w2 == IF ~ok THEN handleDegradation(w1) ELSE w1
      o == w.net[i].owner
  IN IF ~ok /\ o.type = "run"
     THEN [w2 EXCEPT !.runs[o.id].ingestErr = TransportError(i)]
     ELSE w2

\* the rest of ingestRun / ingestStep / ingestCandidates once fetch i has
\* settled: a rejection or a non-ok response degrades the client when
\* degradeOnError is set; only ingestRun rethrows
fetchSettled(w, i, ok) ==
  LET w1 == [w EXCEPT !.net[i].outcome = IF ok THEN "ok" ELSE "fail"]
      w2 == IF ~ok /\ cfg.degradeOnError THEN handleDegradation(w1) ELSE w1
      o == w.net[i].owner
  IN IF ~ok /\ o.type = "run"
     THEN [w2 EXCEPT !.runs[o.id].ingestErr = TransportError(i)]
     ELSE w2

----------------------------------------------------------------------------
\* flush

\* Object.keys(s).length > 0
HasKeys(s) == DOMAIN s # {}

\* stepsToFlush.map(step => this.ingestStep(step)), called one after another
RECURSIVE ingestAllSteps(_, _, _)
ingestAllSteps(w, owner, stepsToFlush) ==
  IF stepsToFlush = <<>>
  THEN w
  ELSE ingestAllSteps(ingestStep(w, owner, Head(stepsToFlush)), owner, Tail(stepsToFlush))

\* candidatesToFlush.map(({stepId, candidates}) => this.ingestCandidates(stepId, candidates))
RECURSIVE ingestAllCandidates(_, _, _)
ingestAllCandidates(w, owner, candidatesToFlush) ==
  IF candidatesToFlush = <<>>
  THEN w
  ELSE ingestAllCandidates(
         ingestCandidates(w, owner, Head(candidatesToFlush).stepId,
                          Head(candidatesToFlush).candidates),
         owner, Tail(candidatesToFlush))

\* flush draining again for as long as the step queue is not empty
flushCandidatesUntilEmpty(w, r) ==
  LET candidatesToFlush == w.runs[r].candidatesToFlush
  IN IF Len(w.pendingSteps) > 0
     THEN [ingestAllSteps([w EXCEPT !.pendingSteps = <<>>], FlushOwner(r),
                          SelectSeq(w.pendingSteps, HasKeys))
             EXCEPT !.runs[r].pc = "flushSteps"]
     ELSE IF Len(candidatesToFlush) > 0
          THEN [ingestAllCandidates(w, FlushOwner(r), candidatesToFlush)
                  EXCEPT !.runs[r].pc = "flushCands"]
          ELSE [w EXCEPT !.runs[r].pc = "flushRet"]

\* flush, second half: the buffered candidate batches.  No ingestCandidates
\* promise ever rejects, so the catch of flush is never entered.
flushCandidates(w, r) ==
  LET candidatesToFlush == w.runs[r].candidatesToFlush
  IN IF Len(candidatesToFlush) > 0
     THEN [ingestAllCandidates(w, FlushOwner(r), candidatesToFlush)
             EXCEPT !.runs[r].pc = "flushCands"]
     ELSE [w EXCEPT !.runs[r].pc = "flushRet"]

\* flush, from its call in the finally block of run r to its first await
flush(w, r) ==
  IF w.degraded \/ ~cfg.apiUrl
  THEN [w EXCEPT !.runs[r].pc = "flushRet"]
  ELSE LET stepsToFlush == SelectSeq(w.pendingSteps, HasKeys)
           candidatesToFlush == w.pendingCandidates
           w1 == [w EXCEPT !.pendingSteps = <<>>,
                           !.pendingCandidates = <<>>,
                           !.runs[r].candidatesToFlush = candidatesToFlush]
       IN IF Len(stepsToFlush) > 0
          THEN [ingestAllSteps(w1, FlushOwner(r), stepsToFlush)
                  EXCEPT !.runs[r].pc = "flushSteps"]
          ELSE flushCandidates(w1, r)

----------------------------------------------------------------------------
\* run

\* flush called at the end of the try block instead of in `finally`
enterFinallyFlushOnSuccess(w, r, c) ==
  IF c.kind = "raise"
  THEN [w EXCEPT !.runs[r].completion = c, !.runs[r].pc = "flushRet"]
  ELSE flush([w EXCEPT !.runs[r].completion = c, !.runs[r].flushCalls = @ + 1], r)

\* `finally`: run r is about to complete with c; flush is called first
enterFinally(w, r, c) ==
  flush([w EXCEPT !.runs[r].completion = c, !.runs[r].flushCalls = @ + 1], r)

\* this.currentRun.endedAt = new Date(); await this.ingestRun(this.currentRun)
endRun(w, r, pc) ==
  LET run == w.currentRun
      w1 == [w EXCEPT !.runs[run].endedAt = TRUE, !.runs[run].endSets = @ + 1]
  IN [ingestRun(w1, r, run) EXCEPT !.runs[r].pc = pc]

\* `catch (error)` of run r
enterCatch(w, r, error) ==
  LET w1 == [w EXCEPT !.runs[r].error = error, !.runs[r].ingestErr = NoError]
  IN IF w1.currentRun # Null
     THEN endRun(w1, r, "awaitCatch")
     ELSE enterFinally(w1, r, Raise(error))

\* run, from the call to the first await
runStart(w, r) ==
  LET w1 == [w EXCEPT !.currentRunId = r, !.currentRun = r, !.stepPosition = 0,
                      !.runs[r].pc = "awaitCreate"]
  IN ingestRun(w1, r, r)

\* the run-created failure swallowed: fn is called in every case
runAfterCreateSwallowing(w, r) ==
  [w EXCEPT !.runs[r].pc = "fn", !.runs[r].fnState = "pending",
            !.runs[r].fnCalls = @ + 1, !.runs[r].ingestErr = NoError]

\* after `await this.ingestRun(run)`: fn is called, or the rejection is caught
runAfterCreate(w, r) ==
  IF w.runs[r].ingestErr # NoError
  THEN enterCatch(w, r, w.runs[r].ingestErr)
  ELSE [w EXCEPT !.runs[r].pc = "fn", !.runs[r].fnState = "pending",
                 !.runs[r].fnCalls = @ + 1]

\* fn() fulfilled with result
runFnReturned(w, r, result) ==
  LET w1 == [w EXCEPT !.runs[r].fnState = "returned", !.runs[r].result = result]
  IN IF w1.currentRun # Null
     THEN endRun(w1, r, "awaitUpdate")
     ELSE enterFinally(w1, r, Ret(result))

\* fn() rejected
runFnThrew(w, r) ==
  enterCatch([w EXCEPT !.runs[r].fnState = "threw"], r, StageError)

\* the run-updated failure swallowed
runAfterUpdateSwallowing(w, r) ==
  enterFinally(w, r, Ret(w.runs[r].result))

\* after the `await this.ingestRun(this.currentRun)` of the try block
runAfterUpdate(w, r) ==
  IF w.runs[r].ingestErr # NoError
  THEN enterCatch(w, r, w.runs[r].ingestErr)
  ELSE enterFinally(w, r, Ret(w.runs[r].result))

\* after the `await this.ingestRun(this.currentRun)` of the catch block:
\* `throw error`, unless the await itself threw
runAfterCatch(w, r) ==
  IF w.runs[r].ingestErr # NoError
  THEN enterFinally([w EXCEPT !.runs[r].ingestErr = NoError], r,
                    Raise(w.runs[r].ingestErr))
  ELSE enterFinally(w, r, Raise(w.runs[r].error))

\* `finally` clearing the run context and leaving the counter
runFinallyKeepingPosition(w, r) ==
  [w EXCEPT !.currentRunId = Null, !.currentRun = Null,
            !.runs[r].pc = "done", !.runs[r].outcome = w.runs[r].completion]

\* the rest of `finally` after `await this.flush()`; the promise of run settles
runFinally(w, r) ==
  [w EXCEPT !.currentRunId = Null, !.currentRun = Null, !.stepPosition = 0,
            !.runs[r].pc = "done", !.runs[r].outcome = w.runs[r].completion]

----------------------------------------------------------------------------
\* step

\* the configured default, whatever the option
effectiveCaptureLevelOfConfig(opts) == cfg.defaultCaptureLevel

\* options.captureLevel || this.config.defaultCaptureLevel
effectiveCaptureLevel(opts) ==
  IF opts.captureLevel # Unset THEN opts.captureLevel ELSE cfg.defaultCaptureLevel

\* candidatesIn taken from the result alone
candidatesInOfResult(result, candidates) ==
  IF result.shape \in {"array", "lenobj"} THEN result.len ELSE 1

\* candidatesIn of a successful step, from the shape of the result
candidatesInOf(result, candidates) ==
  IF result.shape = "array"
  THEN IF candidates.given THEN Len(candidates.list) ELSE result.len
  ELSE IF result.shape = "lenobj"
       THEN IF candidates.given /\ Len(candidates.list) # 0
            THEN Len(candidates.list)
            ELSE result.len
       ELSE 1

\* candidatesOut counting only the elements of a sequence
candidatesOutOfElements(result) ==
  IF result.shape \in {"array", "lenobj"} THEN result.len ELSE 0

\* candidatesOut of a successful step
candidatesOutOf(result) ==
  IF result.shape \in {"array", "lenobj"} THEN result.len ELSE 1

\* candidatesIn > 0 ? 1 - candidatesOut / candidatesIn : 0
dropRatioOf(candidatesIn, candidatesOut) ==
  IF candidatesIn > 0 THEN <<candidatesIn - candidatesOut, candidatesIn>> ELSE RatZero

\* options.metrics || {}
metricsOf(opts) == IF opts.extras.metrics # Unset THEN opts.extras.metrics ELSE "{}"

\* the Step record of the try block under an identifier of its own
successRecordOwnId(w, s, candidatesIn, candidatesOut) ==
  [stepId |-> s + MaxCalls, runId |-> w.currentRunId, position |-> w.steps[s].position,
   metrics |-> metricsOf(w.steps[s].opts),
   candidatesIn |-> candidatesIn, candidatesOut |-> candidatesOut,
   dropRatio |-> dropRatioOf(candidatesIn, candidatesOut),
   captureLevel |-> w.steps[s].captureLevel,
   artifacts |-> w.steps[s].opts.extras.artifacts]

\* the Step record of the try block with the run identifier read at the call
successRecordRunAtCall(w, s, candidatesIn, candidatesOut) ==
  [stepId |-> s, runId |-> w.steps[s].runAtCall, position |-> w.steps[s].position,
   metrics |-> metricsOf(w.steps[s].opts),
   candidatesIn |-> candidatesIn, candidatesOut |-> candidatesOut,
   dropRatio |-> dropRatioOf(candidatesIn, candidatesOut),
   captureLevel |-> w.steps[s].captureLevel,
   artifacts |-> w.steps[s].opts.extras.artifacts]

\* the Step record of the try block
successRecord(w, s, candidatesIn, candidatesOut) ==
  [stepId |-> s, runId |-> w.currentRunId, position |-> w.steps[s].position,
   metrics |-> metricsOf(w.steps[s].opts),
   candidatesIn |-> candidatesIn, candidatesOut |-> candidatesOut,
   dropRatio |-> dropRatioOf(candidatesIn, candidatesOut),
   captureLevel |-> w.steps[s].captureLevel,
   artifacts |-> w.steps[s].opts.extras.artifacts]

\* the catch block computing dropRatio as the try block does
failureRecordComputedRatio(w, s) ==
  [stepId |-> s, runId |-> w.currentRunId, position |-> w.steps[s].position,
   metrics |-> metricsOf(w.steps[s].opts),
   candidatesIn |-> w.steps[s].candidatesIn, candidatesOut |-> 0,
   dropRatio |-> dropRatioOf(w.steps[s].candidatesIn, 0),
   captureLevel |-> w.steps[s].captureLevel,
   artifacts |-> w.steps[s].opts.extras.artifacts]

\* the Step record of the catch block
failureRecord(w, s) ==
  [stepId |-> s, runId |-> w.currentRunId, position |-> w.steps[s].position,
   metrics |-> metricsOf(w.steps[s].opts),
   candidatesIn |-> w.steps[s].candidatesIn, candidatesOut |-> 0,
   dropRatio |-> RatOne,
   captureLevel |-> w.steps[s].captureLevel,
   artifacts |-> w.steps[s].opts.extras.artifacts]

\* a record handed by step s to ingestStep or ingestCandidates
emit(w, s, kind, rec) ==
  [w EXCEPT !.emitted = Append(@, [kind |-> kind, by |-> s, rec |-> rec])]

\* the position taken before the test of this.currentRunId
stepPassThroughCounting(w, s) ==
  [w EXCEPT !.steps[s].pc = "pass", !.steps[s].fnCalls = @ + 1,
            !.steps[s].position = w.stepPosition, !.stepPosition = @ + 1]

\* step outside a run: `return fn()`
stepPassThrough(w, s) ==
  [w EXCEPT !.steps[s].pc = "pass", !.steps[s].fnCalls = @ + 1]

\* const position = ++this.stepPosition
takePositionPreIncrement(w, s) ==
  [w EXCEPT !.steps[s].position = w.stepPosition + 1, !.stepPosition = @ + 1]

\* const position = this.stepPosition++
takePosition(w, s) ==
  [w EXCEPT !.steps[s].position = w.stepPosition, !.stepPosition = @ + 1]

\* step, from the call to `await fn()`
stepStart(w, s, opts) ==
  IF w.currentRunId = Null
  THEN stepPassThrough(w, s)
  ELSE [takePosition(w, s)
          EXCEPT !.steps[s].pc = "fn",
                 !.steps[s].runAtCall = w.currentRunId,
                 !.steps[s].captureLevel = effectiveCaptureLevel(opts),
                 !.steps[s].opts = opts,
                 !.steps[s].fnCalls = @ + 1]

\* fn() fulfilled: ingestStep and ingestCandidates called one after the other
\* without awaiting the first
stepFnReturnedSendingBoth(w, s, result) ==
  LET candidatesOut == candidatesOutOf(result)
      candidatesIn == candidatesInOf(result, w.steps[s].opts.candidates)
      step == successRecord(w, s, candidatesIn, candidatesOut)
      w1 == [w EXCEPT !.steps[s].pc = "awaitStep",
                      !.steps[s].fnOutcome = Ret(result),
                      !.steps[s].result = result,
                      !.steps[s].candidatesIn = candidatesIn]
      w2 == ingestStep(emit(w1, s, "step", step), StepOwner(s), step)
  IN IF w.steps[s].captureLevel = "FULL" /\ w.steps[s].opts.candidates.given
     THEN LET candidates == w.steps[s].opts.candidates.list
              w3 == [w2 EXCEPT !.steps[s].pc = "awaitCandidates"]
          IN ingestCandidates(emit(w3, s, "candidates",
                                   [stepId |-> s, candidates |-> candidates]),
                              StepOwner(s), s, candidates)
     ELSE w2

\* fn() fulfilled: the counts, the record, `await this.ingestStep(step)`
stepFnReturned(w, s, result) ==
  LET candidatesOut == candidatesOutOf(result)
      candidatesIn == candidatesInOf(result, w.steps[s].opts.candidates)
      step == successRecord(w, s, candidatesIn, candidatesOut)
      w1 == [w EXCEPT !.steps[s].pc = "awaitStep",
                      !.steps[s].fnOutcome = Ret(result),
                      !.steps[s].result = result,
                      !.steps[s].candidatesIn = candidatesIn]
  IN ingestStep(emit(w1, s, "step", step), StepOwner(s), step)

\* the catch block rethrowing without a record
stepCatchSilent(w, s, error) ==
  [w EXCEPT !.steps[s].pc = "awaitCatchStep", !.steps[s].error = error]

\* the catch block up to `await this.ingestStep(step)`
stepCatch(w, s, error) ==
  LET step == failureRecord(w, s)
      w1 == [w EXCEPT !.steps[s].pc = "awaitCatchStep", !.steps[s].error = error]
  IN ingestStep(emit(w1, s, "step", step), StepOwner(s), step)

\* fn() rejected
stepFnThrew(w, s) ==
  stepCatch([w EXCEPT !.steps[s].fnOutcome = Raise(StageError)], s, StageError)

\* the candidates sent whenever a list was given, whatever the capture level
stepAfterIngestAnyLevel(w, s) ==
  IF w.steps[s].opts.candidates.given
  THEN LET candidates == w.steps[s].opts.candidates.list
           w1 == [w EXCEPT !.steps[s].pc = "awaitCandidates"]
       IN ingestCandidates(emit(w1, s, "candidates",
                                [stepId |-> s, candidates |-> candidates]),
                           StepOwner(s), s, candidates)
  ELSE [w EXCEPT !.steps[s].pc = "done",
                 !.steps[s].outcome = Ret(w.steps[s].result)]

\* after `await this.ingestStep(step)` of the try block
stepAfterIngest(w, s) ==
  IF w.steps[s].captureLevel = "FULL" /\ w.steps[s].opts.candidates.given
  THEN LET candidates == w.steps[s].opts.candidates.list
           w1 == [w EXCEPT !.steps[s].pc = "awaitCandidates"]
       IN ingestCandidates(emit(w1, s, "candidates",
                                [stepId |-> s, candidates |-> candidates]),
                           StepOwner(s), s, candidates)
  ELSE [w EXCEPT !.steps[s].pc = "done",
                 !.steps[s].outcome = Ret(w.steps[s].result)]

\* ingestCandidates rethrowing the failure of its fetch
stepAfterCandidatesRethrowing(w, s) ==
  LET failed == {i \in DOMAIN w.net : w.net[i].owner = StepOwner(s)
                                        /\ w.net[i].kind = "candidates"
                                        /\ w.net[i].outcome = "fail"}
  IN IF failed # {}
     THEN [w EXCEPT !.steps[s].pc = "done",
                    !.steps[s].outcome = Raise(TransportError(CHOOSE i \in failed : TRUE))]
     ELSE [w EXCEPT !.steps[s].pc = "done", !.steps[s].outcome = Ret(w.steps[s].result)]

\* after `await this.ingestCandidates(...)`: `return result`
stepAfterCandidates(w, s) ==
  [w EXCEPT !.steps[s].pc = "done", !.steps[s].outcome = Ret(w.steps[s].result)]

\* after `await this.ingestStep(step)` of the catch block: `throw error`
stepAfterCatch(w, s) ==
  [w EXCEPT !.steps[s].pc = "done", !.steps[s].outcome = Raise(w.steps[s].error)]

----------------------------------------------------------------------------
\* The facade `xray` of index.ts

\* defaultConfig of config.ts as the module is loaded: no apiUrl
defaultConfig ==
  [apiUrl |-> FALSE, enableAsyncIngestion |-> TRUE,
   degradeOnError |-> TRUE, defaultCaptureLevel |-> "NONE"]

\* Partial<XRayConfig>: a record of the fields that are given
PartialConfigs ==
  {[apiUrl |-> TRUE],
   [enableAsyncIngestion |-> FALSE],
   [defaultCaptureLevel |-> "FULL"],
   [apiUrl |-> TRUE, degradeOnError |-> FALSE]}

InitialFacade == [defaultConfig |-> defaultConfig, given |-> <<>>, retired |-> <<>>]

\* Object.assign(target, source), and the spread {...target, ...source}
objectAssign(target, source) ==
  [f \in DOMAIN target |-> IF f \in DOMAIN source THEN source[f] ELSE target[f]]

\* new XRayClient(config), while the shared defaultConfig object holds dc:
\* this.config = { ...defaultConfig, ...config } and the field initialisers
newXRayClient(dc, config) ==
  [config |-> objectAssign(dc, config),
   w |-> [currentRunId |-> Null, currentRun |-> Null, stepPosition |-> 0,
          degraded |-> FALSE, pendingSteps |-> <<>>, pendingCandidates |-> <<>>,
          runs |-> [r \in RunIds |-> InitRun], steps |-> [s \in StepIds |-> InitStep],
          net |-> <<>>, emitted |-> <<>>]]

\* configure writing the new configuration into the client it has
configureKeepingClient(f, client, config) ==
  LET dc == objectAssign(f.defaultConfig, config)
  IN [facade |-> [f EXCEPT !.defaultConfig = dc, !.given = Append(@, config)],
      client |-> [client EXCEPT !.config = dc]]

\* xray.configure(config): Object.assign(defaultConfig, config);
\* defaultClient = new XRayClient(defaultConfig).  The client that was
\* defaultClient lives on for the invocations that hold it.
configure(f, client, config) ==
  LET dc == objectAssign(f.defaultConfig, config)
  IN [facade |-> [defaultConfig |-> dc, given |-> Append(f.given, config),
                  retired |-> Append(f.retired, client)],
      client |-> newXRayClient(dc, dc)]

----------------------------------------------------------------------------
\* The backend: POST /api/v1/runs, /api/v1/steps, /api/v1/candidates

\* SQL NULL
SqlNull == "null"

EmptyDb == [runs |-> {}, steps |-> {}, candidates |-> <<>>]

\* `x || null`, `x ? JSON.stringify(x) : null`: an absent field is stored as
\* NULL, a present one as its text
orNull(x) == IF x = Unset THEN SqlNull ELSE x

\* bodies of POST /api/v1/runs: an absent field is Unset (Null for run_id);
\* every complete body for run 1, one for run 2, and one for each required
\* field that can be absent
ARunBody ==
  [run_id |-> 1, pipeline_name |-> "p", pipeline_version |-> "v",
   environment |-> Unset, started_at |-> "t0", ended_at |-> Unset, metadata |-> Unset]
CompleteRunBodies ==
  [run_id : {1}, pipeline_name : {"p", "q"}, pipeline_version : {"v"},
   environment : {Unset, "dev"}, started_at : {"t0"}, ended_at : {Unset, "t1"},
   metadata : {Unset, "md"}]
    \cup {[ARunBody EXCEPT !.run_id = 2]}
RunBodies ==
  CompleteRunBodies
    \cup {[ARunBody EXCEPT !.run_id = Null], [ARunBody EXCEPT !.pipeline_name = Unset],
          [ARunBody EXCEPT !.pipeline_version = Unset],
          [ARunBody EXCEPT !.started_at = Unset]}

\* bodies of POST /api/v1/steps: the valid ones, and one for each way of
\* being invalid
ValidStepBodies ==
  [step_id : {1, 2}, run_id : {1, 2}, step_type : {"FILTER"}, step_name : {"n"},
   position : {0, 1}, capture_level : {"SUMMARY", "FULL"}]
AStepBody ==
  [step_id |-> 1, run_id |-> 1, step_type |-> "FILTER", step_name |-> "n",
   position |-> 0, capture_level |-> "FULL"]
StepBodies ==
  ValidStepBodies
    \cup {[AStepBody EXCEPT !.step_type = "filter"],
          [AStepBody EXCEPT !.capture_level = "full"],
          [AStepBody EXCEPT !.step_name = Unset]}

\* bodies of POST /api/v1/candidates: candidates is absent, or a list of
\* candidate_id, some of them absent
CandidateBodies ==
  [step_id : {1, 2}, candidates : {Unset, <<"a">>, <<"a", Unset>>, <<"a", "a">>}]

validStepTypes == {"INPUT", "GENERATION", "RETRIEVAL", "FILTER", "RANKING",
                   "EVALUATION", "SELECTION"}
validCaptureLevels == {"NONE", "SUMMARY", "FULL"}

Reply(d, status) == [db |-> d, status |-> status]

\* UPDATE runs SET pipeline_name = ..., ended_at = ..., metadata = ...
updateRunAllColumns(d, body) ==
  [d EXCEPT !.runs = {IF row.run_id = body.run_id
                      THEN [row EXCEPT !.pipeline_name = body.pipeline_name,
                                       !.ended_at = orNull(body.ended_at),
                                       !.metadata = orNull(body.metadata)]
                      ELSE row : row \in d.runs}]

\* UPDATE runs SET ended_at = ?, metadata = ? WHERE run_id = ?
updateRun(d, body) ==
  [d EXCEPT !.runs = {IF row.run_id = body.run_id
                      THEN [row EXCEPT !.ended_at = orNull(body.ended_at),
                                       !.metadata = orNull(body.metadata)]
                      ELSE row : row \in d.runs}]

\* INSERT INTO runs ...
insertRun(d, body) ==
  [d EXCEPT !.runs = @ \cup
     {[run_id |-> body.run_id, pipeline_name |-> body.pipeline_name,
       pipeline_version |-> body.pipeline_version,
       environment |-> IF body.environment = Unset THEN "prod" ELSE body.environment,
       started_at |-> body.started_at, ended_at |-> orNull(body.ended_at),
       metadata |-> orNull(body.metadata)]}]

\* POST /api/v1/runs
postRun(d, body) ==
  IF \/ body.run_id = Null \/ body.pipeline_name = Unset
     \/ body.pipeline_version = Unset \/ body.started_at = Unset
  THEN Reply(d, 400)
  ELSE IF \E row \in d.runs : row.run_id = body.run_id
       THEN Reply(updateRun(d, body), 200)
       ELSE Reply(insertRun(d, body), 201)

\* INSERT INTO steps ...: step_id is the primary key and step_name is NOT
\* NULL; a violated constraint throws and nothing is stored
insertStep(d, body) ==
  IF (\E row \in d.steps : row.step_id = body.step_id) \/ body.step_name = Unset
  THEN Reply(d, 500)
  ELSE Reply([d EXCEPT !.steps = @ \cup {body}], 201)

\* POST /api/v1/steps without the lookup of the referenced run
postStepWithoutRunTest(d, body) ==
  IF body.step_type \notin validStepTypes
  THEN Reply(d, 400)
  ELSE IF body.capture_level \notin validCaptureLevels
       THEN Reply(d, 400)
       ELSE insertStep(d, body)

\* POST /api/v1/steps
postStep(d, body) ==
  IF body.step_type \notin validStepTypes
  THEN Reply(d, 400)
  ELSE IF body.capture_level \notin validCaptureLevels
       THEN Reply(d, 400)
       ELSE IF ~\E run \in d.runs : run.run_id = body.run_id
            THEN Reply(d, 404)
            ELSE insertStep(d, body)

\* insertMany(candidates || []): one transaction; candidate_id is NOT NULL, so
\* one absent candidate_id rolls the whole batch back
insertMany(d, step_id, candidates) ==
  IF \E k \in DOMAIN candidates : candidates[k] = Unset
  THEN Reply(d, 500)
  ELSE Reply([d EXCEPT !.candidates =
                 @ \o [k \in DOMAIN candidates |->
                         [candidate_id |-> candidates[k], step_id |-> step_id]]],
             201)

\* POST /api/v1/candidates without the test of capture_level
postCandidatesAnyLevel(d, body) ==
  IF ~\E step \in d.steps : step.step_id = body.step_id
  THEN Reply(d, 404)
  ELSE insertMany(d, body.step_id,
                  IF body.candidates = Unset THEN <<>> ELSE body.candidates)

\* POST /api/v1/candidates
postCandidates(d, body) ==
  IF ~\E step \in d.steps : step.step_id = body.step_id
  THEN Reply(d, 404)
  ELSE IF \E step \in d.steps : step.step_id = body.step_id /\ step.capture_level # "FULL"
       THEN Reply(d, 400)
       ELSE insertMany(d, body.step_id,
                       IF body.candidates = Unset THEN <<>> ELSE body.candidates)

----------------------------------------------------------------------------
\* Actions: one per atomic segment of run and step, and the environment


Init ==
  /\ cfg \in Configs
  /\ currentRunId = Null
  /\ currentRun = Null
  /\ stepPosition = 0
  /\ degraded = FALSE
  /\ pendingSteps = <<>>
  /\ pendingCandidates = <<>>
  /\ runs = [r \in RunIds |-> InitRun]
  /\ steps = [s \in StepIds |-> InitStep]
  /\ net = <<>>
  /\ emitted = <<>>
  /\ db = EmptyDb
  /\ facade = InitialFacade

\* run is called; invocations are numbered in call order
RunStart(r) ==
  /\ runs[r].pc = "idle"
  /\ \A q \in RunIds : q < r => runs[q].pc # "idle"
  /\ Apply(runStart(W, r))

RunAfterCreate(r) ==
  /\ runs[r].pc = "awaitCreate"
  /\ Settled(RunOwner(r))
  /\ Apply(runAfterCreate(W, r))

\* the promise of the stage function of run r is fulfilled
RunFnReturned(r) ==
  /\ runs[r].pc = "fn"
  /\ \E v \in {[shape |-> "scalar", len |-> 0]} : Apply(runFnReturned(W, r, v))

\* the promise of the stage function of run r is rejected
RunFnThrew(r) ==
  /\ runs[r].pc = "fn"
  /\ Apply(runFnThrew(W, r))

RunAfterUpdate(r) ==
  /\ runs[r].pc = "awaitUpdate"
  /\ Settled(RunOwner(r))
  /\ Apply(runAfterUpdate(W, r))

RunAfterCatch(r) ==
  /\ runs[r].pc = "awaitCatch"
  /\ Settled(RunOwner(r))
  /\ Apply(runAfterCatch(W, r))

\* Promise.all over the step submissions of flush has resolved
RunFlushSteps(r) ==
  /\ runs[r].pc = "flushSteps"
  /\ Settled(FlushOwner(r))
  /\ Apply(flushCandidates(W, r))

\* Promise.all over the candidate submissions of flush has resolved
RunFlushCandidates(r) ==
  /\ runs[r].pc = "flushCands"
  /\ Settled(FlushOwner(r))
  /\ Apply([W EXCEPT !.runs[r].pc = "flushRet"])

RunFinally(r) ==
  /\ runs[r].pc = "flushRet"
  /\ Apply(runFinally(W, r))

\* step is called with options from Opts; invocations are numbered in call
\* order
StepStartWith(s, Opts) ==
  /\ steps[s].pc = "idle"
  /\ \A q \in StepIds : q < s => steps[q].pc # "idle"
  /\ \E opts \in Opts : Apply(stepStart(W, s, opts))

StepStart(s) == StepStartWith(s, StepOpts)

\* the stage function of a pass-through step settles; its promise is the
\* one step returned
StepPassSettle(s) ==
  /\ steps[s].pc = "pass"
  /\ \E o \in {Ret(v) : v \in Results} \cup {Raise(StageError)} :
       Apply([W EXCEPT !.steps[s].pc = "done", !.steps[s].fnOutcome = o,
                       !.steps[s].outcome = o])

\* the stage function of step s returns a value from Values
StepFnReturnWith(s, Values) ==
  /\ steps[s].pc = "fn"
  /\ \E v \in Values : Apply(stepFnReturned(W, s, v))

StepFnReturn(s) == StepFnReturnWith(s, Results)

StepFnThrow(s) ==
  /\ steps[s].pc = "fn"
  /\ Apply(stepFnThrew(W, s))

StepAfterIngest(s) ==
  /\ steps[s].pc = "awaitStep"
  /\ Settled(StepOwner(s))
  /\ Apply(stepAfterIngest(W, s))

StepAfterCandidates(s) ==
  /\ steps[s].pc = "awaitCandidates"
  /\ Settled(StepOwner(s))
  /\ Apply(stepAfterCandidates(W, s))

StepAfterCatch(s) ==
  /\ steps[s].pc = "awaitCatchStep"
  /\ Settled(StepOwner(s))
  /\ Apply(stepAfterCatch(W, s))

\* the network answers fetch i: ok, or a rejection / non-ok response
NetRespond(i) ==
  /\ net[i].outcome = "pending"
  /\ \E ok \in BOOLEAN : Apply(fetchSettled(W, i, ok))

\* The caller is single-threaded and awaits every call it makes (the
\* scheduling model the client is written for): it is outside every run, or
\* inside the stage function of the one active run, and it waits for a step
\* before it does anything else.  It makes at most MaxCalls calls.
RunActive == \E r \in RunIds : runs[r].pc \notin {"idle", "done"}
StepBusy == \E s \in StepIds : steps[s].pc \notin {"idle", "done"}
Calls ==
  Cardinality({r \in RunIds : runs[r].pc # "idle"})
    + Cardinality({s \in StepIds : steps[s].pc # "idle"})
CallerOutside == ~RunActive /\ ~StepBusy
CallerInFn(r) == runs[r].pc = "fn" /\ ~StepBusy

\* the caller calls run
RunCall(r) == CallerOutside /\ Calls < MaxCalls /\ RunStart(r)

\* the stage function of run r returns
RunFnReturn(r) == CallerInFn(r) /\ RunFnReturned(r)

\* the stage function of run r throws
RunFnThrow(r) == CallerInFn(r) /\ RunFnThrew(r)

\* the caller calls step, outside every run or inside a stage function
StepCall(s) ==
  /\ CallerOutside \/ \E r \in RunIds : CallerInFn(r)
  /\ Calls < MaxCalls
  /\ StepStart(s)

Next ==
  \/ \E r \in RunIds : RunCall(r)
  \/ \E r \in RunIds : RunAfterCreate(r)
  \/ \E r \in RunIds : RunFnReturn(r)
  \/ \E r \in RunIds : RunFnThrow(r)
  \/ \E r \in RunIds : RunAfterUpdate(r)
  \/ \E r \in RunIds : RunAfterCatch(r)
  \/ \E r \in RunIds : RunFlushSteps(r)
  \/ \E r \in RunIds : RunFlushCandidates(r)
  \/ \E r \in RunIds : RunFinally(r)
  \/ \E s \in StepIds : StepCall(s)
  \/ \E s \in StepIds : StepPassSettle(s)
  \/ \E s \in StepIds : StepFnReturn(s)
  \/ \E s \in StepIds : StepFnThrow(s)
  \/ \E s \in StepIds : StepAfterIngest(s)
  \/ \E s \in StepIds : StepAfterCandidates(s)
  \/ \E s \in StepIds : StepAfterCatch(s)
  \/ \E i \in DOMAIN net : NetRespond(i)

Spec == Init /\ [][Next]_vars

\* Every step of the client that is not a call by the caller: a stage
\* function settling, a fetch settling, and the continuation that the
\* settling of an awaited promise schedules.
Settle ==
  \/ \E r \in RunIds :
        \/ RunAfterCreate(r) \/ RunFnReturn(r) \/ RunFnThrow(r)
        \/ RunAfterUpdate(r) \/ RunAfterCatch(r) \/ RunFlushSteps(r)
        \/ RunFlushCandidates(r) \/ RunFinally(r)
  \/ \E s \in StepIds :
        \/ StepPassSettle(s) \/ StepFnReturn(s) \/ StepFnThrow(s)
        \/ StepAfterIngest(s) \/ StepAfterCandidates(s) \/ StepAfterCatch(s)
  \/ \E i \in DOMAIN net : NetRespond(i)

\* The sequential caller under the assumption that stage functions and
\* fetches settle and that the event loop runs every scheduled continuation.
SpecFair == Spec /\ WF_vars(Settle)

----------------------------------------------------------------------------
\* One run with one step in its stage function, over every configuration,
\* every combination of options and every shape of result

InitOneStep ==
  /\ cfg \in AllConfigs
  /\ currentRunId = Null
  /\ currentRun = Null
  /\ stepPosition = 0
  /\ degraded = FALSE
  /\ pendingSteps = <<>>
  /\ pendingCandidates = <<>>
  /\ runs = [r \in RunIds |-> InitRun]
  /\ steps = [s \in StepIds |-> InitStep]
  /\ net = <<>>
  /\ emitted = <<>>
  /\ db = EmptyDb
  /\ facade = InitialFacade

OneRunCall == RunCall(1)

OneStepCall == CallerInFn(1) /\ StepStartWith(1, AllStepOpts)

OneStepFnReturn == StepFnReturnWith(1, AllResults)

NextOneStep ==
  \/ OneRunCall
  \/ RunAfterCreate(1)
  \/ RunFnReturn(1)
  \/ RunAfterUpdate(1)
  \/ RunAfterCatch(1)
  \/ RunFlushSteps(1)
  \/ RunFlushCandidates(1)
  \/ RunFinally(1)
  \/ OneStepCall
  \/ OneStepFnReturn
  \/ StepFnThrow(1)
  \/ StepAfterIngest(1)
  \/ StepAfterCandidates(1)
  \/ StepAfterCatch(1)
  \/ \E i \in DOMAIN net : NetRespond(i)

SpecOneStep == InitOneStep /\ [][NextOneStep]_vars

----------------------------------------------------------------------------
\* Two run invocations on one client that nest or overlap: the second may be
\* called while the first is anywhere between its call and its completion.
\* One step is called from a stage function, which awaits it before it
\* settles.

OverlapRuns == {1, 2}

OverlapConfigs == {c \in Configs : c.apiUrl}

InitOverlap ==
  /\ cfg \in OverlapConfigs
  /\ currentRunId = Null
  /\ currentRun = Null
  /\ stepPosition = 0
  /\ degraded = FALSE
  /\ pendingSteps = <<>>
  /\ pendingCandidates = <<>>
  /\ runs = [r \in RunIds |-> InitRun]
  /\ steps = [s \in StepIds |-> InitStep]
  /\ net = <<>>
  /\ emitted = <<>>
  /\ db = EmptyDb
  /\ facade = InitialFacade

\* run is called, whatever the other invocation is doing
OverlapRunCall(r) == r \in OverlapRuns /\ RunStart(r)

OverlapFnReturn(r) == ~StepBusy /\ RunFnReturned(r)

OverlapFnThrow(r) == ~StepBusy /\ RunFnThrew(r)

OverlapStepCall == (\E r \in OverlapRuns : runs[r].pc = "fn") /\ StepStart(1)

NextOverlap ==
  \/ \E r \in OverlapRuns : OverlapRunCall(r)
  \/ \E r \in OverlapRuns : RunAfterCreate(r)
  \/ \E r \in OverlapRuns : OverlapFnReturn(r)
  \/ \E r \in OverlapRuns : OverlapFnThrow(r)
  \/ \E r \in OverlapRuns : RunAfterUpdate(r)
  \/ \E r \in OverlapRuns : RunAfterCatch(r)
  \/ \E r \in OverlapRuns : RunFlushSteps(r)
  \/ \E r \in OverlapRuns : RunFlushCandidates(r)
  \/ \E r \in OverlapRuns : RunFinally(r)
  \/ OverlapStepCall
  \/ StepPassSettle(1)
  \/ StepFnReturn(1)
  \/ StepFnThrow(1)
  \/ StepAfterIngest(1)
  \/ StepAfterCandidates(1)
  \/ StepAfterCatch(1)
  \/ \E i \in DOMAIN net : NetRespond(i)

SpecOverlap == InitOverlap /\ [][NextOverlap]_vars

----------------------------------------------------------------------------
\* The backend on its own: any sequence of requests to the three ingest
\* endpoints, from any number of clients

clientVars == <<cfg, currentRunId, currentRun, stepPosition, degraded, pendingSteps,
                pendingCandidates, runs, steps, net, emitted, facade>>

InitBackend ==
  /\ cfg = [apiUrl |-> TRUE, enableAsyncIngestion |-> TRUE,
            degradeOnError |-> TRUE, defaultCaptureLevel |-> "NONE"]
  /\ currentRunId = Null
  /\ currentRun = Null
  /\ stepPosition = 0
  /\ degraded = FALSE
  /\ pendingSteps = <<>>
  /\ pendingCandidates = <<>>
  /\ runs = [r \in RunIds |-> InitRun]
  /\ steps = [s \in StepIds |-> InitStep]
  /\ net = <<>>
  /\ emitted = <<>>
  /\ db = EmptyDb
  /\ facade = InitialFacade

PostRun ==
  \E body \in RunBodies :
    /\ db' = postRun(db, body).db
    /\ UNCHANGED clientVars

PostStep ==
  \E body \in StepBodies :
    /\ db' = postStep(db, body).db
    /\ UNCHANGED clientVars

PostCandidates ==
  \E body \in CandidateBodies :
    /\ Len(postCandidates(db, body).db.candidates) <= MaxRows
    /\ db' = postCandidates(db, body).db
    /\ UNCHANGED clientVars

NextBackend == PostRun \/ PostStep \/ PostCandidates

SpecBackend == InitBackend /\ [][NextBackend]_vars

----------------------------------------------------------------------------
\* The sequential caller using the facade: xray.run and xray.step are the
\* calls of run and step on defaultClient, which the client variables
\* describe; xray.configure may be called wherever the caller is, outside
\* every run or inside the stage function of a run.  An invocation of run on
\* a replaced client stays in facade.retired where configure found it: what
\* is left of it reads and writes the fields of that client only.

InitFacade ==
  /\ cfg = newXRayClient(defaultConfig, <<>>).config
  /\ currentRunId = Null
  /\ currentRun = Null
  /\ stepPosition = 0
  /\ degraded = FALSE
  /\ pendingSteps = <<>>
  /\ pendingCandidates = <<>>
  /\ runs = [r \in RunIds |-> InitRun]
  /\ steps = [s \in StepIds |-> InitStep]
  /\ net = <<>>
  /\ emitted = <<>>
  /\ db = EmptyDb
  /\ facade = InitialFacade

\* the invocations of run and step made on a client
CallsIn(w) ==
  Cardinality({r \in RunIds : w.runs[r].pc # "idle"})
    + Cardinality({s \in StepIds : w.steps[s].pc # "idle"})

RECURSIVE CallsInAll(_)
CallsInAll(clients) ==
  IF clients = <<>> THEN 0 ELSE CallsIn(Head(clients).w) + CallsInAll(Tail(clients))

FacadeCalls == CallsIn(W) + CallsInAll(facade.retired)

\* xray.configure(config)
Configure ==
  \E config \in PartialConfigs :
    /\ CallerOutside \/ \E r \in RunIds : CallerInFn(r)
    /\ Len(facade.given) < MaxConfigures
    /\ LET c == configure(facade, [config |-> cfg, w |-> W], config)
       IN /\ facade' = c.facade
          /\ cfg' = c.client.config
          /\ currentRunId' = c.client.w.currentRunId
          /\ currentRun' = c.client.w.currentRun
          /\ stepPosition' = c.client.w.stepPosition
          /\ degraded' = c.client.w.degraded
          /\ pendingSteps' = c.client.w.pendingSteps
          /\ pendingCandidates' = c.client.w.pendingCandidates
          /\ runs' = c.client.w.runs
          /\ steps' = c.client.w.steps
          /\ net' = c.client.w.net
          /\ emitted' = c.client.w.emitted
    /\ UNCHANGED db

\* xray.run(...)
FacadeRunCall(r) == FacadeCalls < MaxCalls /\ RunCall(r)

\* xray.step(...)
FacadeStepCall(s) == FacadeCalls < MaxCalls /\ StepCall(s)

NextFacade ==
  \/ Configure
  \/ \E r \in RunIds : FacadeRunCall(r)
  \/ \E r \in RunIds : RunAfterCreate(r)
  \/ \E r \in RunIds : RunFnReturn(r)
  \/ \E r \in RunIds : RunFnThrow(r)
  \/ \E r \in RunIds : RunAfterUpdate(r)
  \/ \E r \in RunIds : RunAfterCatch(r)
  \/ \E r \in RunIds : RunFlushSteps(r)
  \/ \E r \in RunIds : RunFlushCandidates(r)
  \/ \E r \in RunIds : RunFinally(r)
  \/ \E s \in StepIds : FacadeStepCall(s)
  \/ \E s \in StepIds : StepPassSettle(s)
  \/ \E s \in StepIds : StepFnReturn(s)
  \/ \E s \in StepIds : StepFnThrow(s)
  \/ \E s \in StepIds : StepAfterIngest(s)
  \/ \E s \in StepIds : StepAfterCandidates(s)
  \/ \E s \in StepIds : StepAfterCatch(s)
  \/ \E i \in DOMAIN net : NetRespond(i)

SpecFacade == InitFacade /\ [][NextFacade]_vars

----------------------------------------------------------------------------
\* Properties

Done(r) == runs[r].pc = "done"
InRun(s) == steps[s].runAtCall # Null
Emissions(s, kind) == {i \in DOMAIN emitted : emitted[i].by = s /\ emitted[i].kind = kind}
Submissions(kind, key) == {i \in DOMAIN net : net[i].kind = kind /\ net[i].key = key}
BackendDown == \A i \in DOMAIN net : net[i].outcome = "fail"
SomeFetchFailed == \E i \in DOMAIN net : net[i].outcome = "fail"

\* C1: with an endpoint configured and every network call failing, a run
\* that has completed has called its stage function exactly once and has
\* returned what the stage function returned, and neither run nor step has
\* raised an error that comes from the transport.
C1_BackendDownIsInvisible ==
  (cfg.apiUrl /\ BackendDown) =>
    /\ \A r \in RunIds : Done(r) =>
         /\ runs[r].fnCalls = 1
         /\ runs[r].fnState = "returned" => runs[r].outcome = Ret(runs[r].result)
         /\ runs[r].outcome.err.type # "transport"
    /\ \A s \in StepIds : steps[s].outcome.err.type # "transport"

\* C2: a run whose stage function threw E completes by raising exactly E.
C2_StageErrorReraised ==
  \A r \in RunIds :
    (Done(r) /\ runs[r].fnState = "threw") => runs[r].outcome = Raise(StageError)

\* C3: with degradeOnError set, a failed fetch leaves the client degraded;
\* a degraded client stays degraded, starts no fetch and queues nothing.
C3_DegradationIsPermanent ==
  [][/\ (cfg.degradeOnError /\ SomeFetchFailed') => degraded'
     /\ (cfg.degradeOnError /\ degraded) =>
          /\ degraded'
          /\ Len(net') = Len(net)
          /\ pendingSteps' = pendingSteps
          /\ pendingCandidates' = pendingCandidates]_vars

\* a degraded client has completed a whole run that called a step, and the
\* only fetch ever started is the one that failed
C3_Witness ==
  /\ cfg.degradeOnError /\ degraded /\ Len(net) = 1
  /\ \E r \in RunIds : Done(r) /\ Len(net) < r
  /\ \E s \in StepIds : InRun(s) /\ steps[s].pc = "done" /\ steps[s].opts.candidates.given
                        /\ steps[s].captureLevel = "FULL"

\* C4: asynchronous ingestion, endpoint configured, client not degraded:
\* when a run has completed, every record emitted by a step of that run has
\* been given to fetch.
C4_DrainSubmitsBuffered ==
  \A r \in RunIds :
    (cfg.enableAsyncIngestion /\ cfg.apiUrl /\ ~degraded /\ Done(r)) =>
      \A i \in DOMAIN emitted :
        steps[emitted[i].by].runAtCall = r =>
          Submissions(emitted[i].kind, emitted[i].by) # {}

\* C5: when no run is in progress both pending queues are empty.
C5_QueuesEmptyAfterRun ==
  ~RunActive => (pendingSteps = <<>> /\ pendingCandidates = <<>>)

\* C6: no step record and no candidate batch is given to fetch twice.
C6_SubmittedAtMostOnce ==
  \A s \in StepIds :
    /\ Cardinality(Submissions("step", s)) <= 1
    /\ Cardinality(Submissions("candidates", s)) <= 1

\* a step record and its candidate batch were submitted, and two runs have
\* drained since
C6_Witness ==
  /\ \A r \in RunIds : r <= 2 => Done(r)
  /\ \E s \in StepIds : /\ steps[s].runAtCall = 1
                        /\ Submissions("step", s) # {}
                        /\ Submissions("candidates", s) # {}

\* C7: a run calls flush exactly once, and not while its stage function is
\* still pending.
C7_FlushExactlyOnce ==
  \A r \in RunIds :
    /\ runs[r].flushCalls <= 1
    /\ Done(r) => runs[r].flushCalls = 1
    /\ runs[r].flushCalls > 0 => runs[r].fnState # "pending"

\* runs have completed with the stage function returning, throwing, and
\* with a failed run submission
C7_Witness ==
  /\ \E r \in RunIds : Done(r) /\ runs[r].fnState = "threw" /\ runs[r].flushCalls = 1
  /\ \E r \in RunIds : Done(r) /\ runs[r].fnState = "returned" /\ runs[r].flushCalls = 1
                       /\ runs[r].outcome.err.type = "transport"

\* C8: a step called while no run is active calls its stage function once,
\* settles exactly as the stage function did, emits nothing, and none of its
\* segments changes the client's state, the fetches or the emissions.
C8_PassThroughStep ==
  [][\A s \in StepIds :
       /\ (steps'[s].pc \in {"pass", "done"} /\ ~InRun(s)') =>
            /\ steps'[s].fnCalls = 1
            /\ Emissions(s, "step")' = {} /\ Emissions(s, "candidates")' = {}
            /\ steps'[s].pc = "done" => steps'[s].outcome = steps'[s].fnOutcome
       /\ (steps'[s].pc # steps[s].pc /\ ~InRun(s)') =>
            UNCHANGED <<currentRunId, currentRun, stepPosition, degraded,
                        pendingSteps, pendingCandidates, net, emitted>>]_vars

\* a pass-through step has raised its stage function's error on a client
\* that is configured to submit and has completed a run
C8_Witness ==
  /\ cfg.apiUrl /\ ~degraded /\ Done(1)
  /\ \E s \in StepIds : /\ steps[s].pc = "done" /\ ~InRun(s)
                        /\ steps[s].outcome = Raise(StageError)

\* C9: a step inside a run whose stage function threw E emits exactly one
\* Step record, with candidatesOut = 0 and dropRatio = 1, emits no candidate
\* batch, and raises E.
C9_FailingStep ==
  \A s \in StepIds :
    (InRun(s) /\ steps[s].fnOutcome.kind = "raise") =>
      /\ Cardinality(Emissions(s, "step")) = 1
      /\ \A i \in Emissions(s, "step") :
           emitted[i].rec.candidatesOut = 0 /\ RatEq(emitted[i].rec.dropRatio, RatOne)
      /\ Emissions(s, "candidates") = {}
      /\ steps[s].pc = "done" => steps[s].outcome = Raise(StageError)

\* a failing step at FULL with a candidate list has raised, with its
\* synchronous submission failed
C9_Witness ==
  \E s \in StepIds :
    /\ InRun(s) /\ steps[s].pc = "done" /\ steps[s].outcome = Raise(StageError)
    /\ steps[s].captureLevel = "FULL" /\ steps[s].opts.candidates.given
    /\ \E i \in Submissions("step", s) : net[i].outcome = "fail"

\* C10: the position given to a step called in a run is the number of steps
\* called in that run before it.
C10_PositionsInCallOrder ==
  \A s \in StepIds :
    InRun(s) =>
      steps[s].position =
        Cardinality({t \in StepIds : t < s /\ steps[t].runAtCall = steps[s].runAtCall})

\* a second step of a run got position 1 after the first one failed and the
\* client degraded
C10_Witness ==
  \E s, t \in StepIds :
    /\ s < t /\ InRun(s) /\ steps[s].runAtCall = steps[t].runAtCall
    /\ steps[s].fnOutcome.kind = "raise" /\ steps[t].position = 1 /\ degraded

----------------------------------------------------------------------------
\* Counts and drop ratio of the Step record

StepRecords == {i \in DOMAIN emitted : emitted[i].kind = "step"}
Succeeded(i) == steps[emitted[i].by].fnOutcome.kind = "ret"
ResultOf(i) == steps[emitted[i].by].fnOutcome.val
ListOf(i) == steps[emitted[i].by].opts.candidates

\* C11: the Step record of a successful step called with a candidate list of
\* length n whose stage function returned an array of length m has
\* candidatesIn = n and candidatesOut = m, and dropRatio = 1 - m/n when n > 0.
C11_ListAndArrayCounts ==
  \A i \in StepRecords :
    Succeeded(i) /\ ListOf(i).given /\ ResultOf(i).shape = "array" =>
      LET n == Len(ListOf(i).list)
          m == ResultOf(i).len
      IN /\ emitted[i].rec.candidatesIn = n
         /\ emitted[i].rec.candidatesOut = m
         /\ n > 0 => RatEq(emitted[i].rec.dropRatio, <<n - m, n>>)

\* a list of MaxLen + 1 candidates narrowed to an array of MaxLen
C11_Witness ==
  \E i \in StepRecords :
    /\ Succeeded(i) /\ ListOf(i).given /\ ResultOf(i).shape = "array"
    /\ Len(ListOf(i).list) = MaxLen + 1 /\ ResultOf(i).len = MaxLen
    /\ emitted[i].rec.candidatesIn = MaxLen + 1
    /\ emitted[i].rec.candidatesOut = MaxLen
    /\ RatEq(emitted[i].rec.dropRatio, <<1, MaxLen + 1>>)

\* C12: the Step record of a successful step called with a candidate list
\* has candidatesIn equal to the length of the list, whatever the shape of the
\* result and whatever the length of the list; without a list candidatesIn
\* equals candidatesOut.
C12_CandidatesInIsListLength ==
  \A i \in StepRecords :
    Succeeded(i) =>
      IF ListOf(i).given
      THEN emitted[i].rec.candidatesIn = Len(ListOf(i).list)
      ELSE emitted[i].rec.candidatesIn = emitted[i].rec.candidatesOut

C15_DropRatioInUnitInterval ==
  \A i \in StepRecords :
    LET ratio == emitted[i].rec.dropRatio
    IN ratio[2] > 0 /\ 0 <= ratio[1] /\ ratio[1] <= ratio[2]
----------------------------------------------------------------------------
\* Candidate batches

C17_OneBatchOfTheList ==
  \A s \in StepIds :
    /\ steps[s].pc = "done" /\ steps[s].outcome.kind = "ret" /\ InRun(s)
    /\ steps[s].captureLevel = "FULL" /\ steps[s].opts.candidates.given
    => /\ Cardinality(Emissions(s, "candidates")) = 1
       /\ \A i \in Emissions(s, "candidates") :
            /\ emitted[i].rec.candidates = steps[s].opts.candidates.list
            /\ \A j \in Emissions(s, "step") :
                 emitted[j].rec.stepId = emitted[i].rec.stepId

\* a step at FULL with MaxLen + 1 candidates has returned after one batch
C17_Witness ==
  \E s \in StepIds :
    /\ steps[s].pc = "done" /\ steps[s].outcome.kind = "ret" /\ InRun(s)
    /\ steps[s].captureLevel = "FULL"
    /\ steps[s].opts.candidates = GivenList(MaxLen + 1)
    /\ \E i \in Emissions(s, "candidates") :
         /\ Len(emitted[i].rec.candidates) = MaxLen + 1
         /\ \E j \in Emissions(s, "step") : emitted[j].rec.stepId = emitted[i].rec.stepId
----------------------------------------------------------------------------
\* Side effects of step and the fate of transport failures

\* C18: a step called inside an active run increments stepPosition exactly
\* once, at its call and in no later segment; it never has more than one
\* Step emission nor more than one candidate-batch emission, and once it has
\* completed, by returning or by raising, it has exactly one Step emission.
C18_OneEmissionOneIncrement ==
  [][\A s \in StepIds :
       /\ (steps[s].pc = "idle" /\ steps'[s].pc = "fn") =>
            stepPosition' = stepPosition + 1
       /\ (steps[s].pc \notin {"idle", "pass"} /\ steps'[s] # steps[s]) =>
            stepPosition' = stepPosition
       /\ InRun(s)' =>
            /\ Cardinality(Emissions(s, "step")') <= 1
            /\ Cardinality(Emissions(s, "candidates")') <= 1
            /\ steps'[s].pc = "done" => Cardinality(Emissions(s, "step")') = 1]_vars

\* two steps of one run have completed, one by raising and one by returning
\* after a candidate batch, and the counter stands at 2
C18_Witness ==
  /\ stepPosition = 2
  /\ \E s, t \in StepIds :
       /\ steps[s].pc = "done" /\ steps[t].pc = "done"
       /\ steps[s].runAtCall = steps[t].runAtCall /\ InRun(s)
       /\ steps[s].outcome.kind = "raise" /\ steps[t].outcome.kind = "ret"
       /\ Cardinality(Emissions(s, "step")) = 1 /\ Cardinality(Emissions(t, "step")) = 1
       /\ Cardinality(Emissions(t, "candidates")) = 1

StepFetches == {i \in DOMAIN net : net[i].kind \in {"step", "candidates"}}

\* C19: whatever the outcome of the step and candidate submissions, a step
\* that has completed has returned its stage function's result or raised its
\* stage function's error, and an error raised by run from the transport is
\* the failure of a run submission; the failure of a step or candidate
\* submission changes nothing but the degraded flag, which it sets exactly
\* when degradeOnError is enabled.
C19_StepFailureSwallowed ==
  [][/\ \A s \in StepIds :
          steps'[s].pc = "done" => steps'[s].outcome = steps'[s].fnOutcome
     /\ \A r \in RunIds :
          (Done(r)' /\ runs'[r].outcome.err.type = "transport") =>
            net'[runs'[r].outcome.err.id].kind = "run"
     /\ \A i \in StepFetches :
          (net[i].outcome = "pending" /\ net'[i].outcome = "fail") =>
            /\ degraded' = (degraded \/ cfg.degradeOnError)
            /\ UNCHANGED <<currentRunId, currentRun, stepPosition, pendingSteps,
                           pendingCandidates, runs, steps, emitted>>]_vars

\* with degradeOnError off the step and the candidate submission of a step
\* have both failed; the step has returned its result, the run has returned
\* and the client is not degraded
C19_Witness ==
  /\ ~degraded
  /\ \E s \in StepIds :
       /\ steps[s].pc = "done" /\ steps[s].outcome.kind = "ret"
       /\ \E i, j \in StepFetches :
            /\ net[i].owner = StepOwner(s) /\ net[i].kind = "step"
            /\ net[j].owner = StepOwner(s) /\ net[j].kind = "candidates"
            /\ net[i].outcome = "fail" /\ net[j].outcome = "fail"
       /\ Done(steps[s].runAtCall) /\ runs[steps[s].runAtCall].outcome.kind = "ret"

RunFetchFailed(r) ==
  \E i \in DOMAIN net :
    net[i].kind = "run" /\ net[i].owner = RunOwner(r) /\ net[i].outcome = "fail"

----------------------------------------------------------------------------
\* The Run record and the active run context

\* C21: the end timestamp of a Run object is assigned at most once.
C21_EndedAtAssignedOnce ==
  \A r \in RunIds : runs[r].endSets <= 1

RunCreatedSent(r) ==
  \E i \in DOMAIN net :
    net[i].kind = "run" /\ net[i].owner = RunOwner(r) /\ net[i].key = r /\ ~net[i].payload.ended

RunUpdatedSent(r) ==
  \E i \in DOMAIN net :
    net[i].kind = "run" /\ net[i].owner = RunOwner(r) /\ net[i].key = r /\ net[i].payload.ended

\* C22: on a client that never degraded, a run invocation that submitted its
\* run-created record and has completed has submitted a run-updated record
\* with its own run identifier and an end time.
C22_CreatedThenUpdated ==
  \A r \in RunIds :
    Done(r) /\ ~degraded /\ RunCreatedSent(r) => RunUpdatedSent(r)

\* C23: when a run returns or raises it leaves currentRunId and currentRun
\* null and stepPosition 0, and they stay so while no run is active; a step
\* called while no run is active is a pass-through, and a run that is called
\* starts with stepPosition 0.
C23_ContextClearedAfterRun ==
  [][/\ \A r \in RunIds :
          (~Done(r) /\ Done(r)') =>
            currentRunId' = Null /\ currentRun' = Null /\ stepPosition' = 0
     /\ ~RunActive' => currentRunId' = Null /\ currentRun' = Null /\ stepPosition' = 0
     /\ \A s \in StepIds :
          (~RunActive /\ steps[s].pc = "idle" /\ steps'[s].pc # "idle") =>
            steps'[s].pc = "pass" /\ stepPosition' = 0
     /\ \A r \in RunIds :
          (runs[r].pc = "idle" /\ runs'[r].pc # "idle") => stepPosition' = 0]_vars

\* a run with one instrumented step has completed and a step called after
\* it has passed through
C23_Witness ==
  /\ Done(1) /\ ~RunActive /\ currentRunId = Null /\ stepPosition = 0
  /\ \E s, t \in StepIds :
       /\ s < t /\ InRun(s) /\ steps[s].pc = "done"
       /\ ~InRun(t) /\ steps[t].pc = "done" /\ steps[t].fnCalls = 1

----------------------------------------------------------------------------
\* Ingestion modes

Waiting(owner) == \E i \in DOMAIN net : net[i].owner = owner /\ net[i].outcome = "pending"

\* C24: with asynchronous ingestion enabled, no run that has not yet called
\* its stage function is waiting for a network call, and no step that has
\* not yet returned is waiting for a network call.
C24_AsyncNeverWaitsOnNetwork ==
  cfg.enableAsyncIngestion =>
    /\ \A r \in RunIds :
         runs[r].pc = "awaitCreate" => ~Waiting(RunOwner(r))
    /\ \A s \in StepIds :
         steps[s].pc \in {"awaitStep", "awaitCandidates", "awaitCatchStep"} =>
           ~Waiting(StepOwner(s))

\* C25: in synchronous mode both queues are empty in every state; a Step
\* record or candidate batch emitted by a client that has an endpoint and is
\* not degraded is given to fetch in the same step, under the stepId of the
\* emission; and a step that has completed has no submission still pending.
C25_SyncSubmitsAtEmission ==
  [][~cfg.enableAsyncIngestion =>
       /\ pendingSteps' = <<>> /\ pendingCandidates' = <<>>
       /\ (emitted' # emitted /\ cfg.apiUrl /\ ~degraded) =>
            LET e == emitted'[Len(emitted')]
            IN /\ emitted' = Append(emitted, e)
               /\ net' = Append(net, [kind |-> e.kind, owner |-> StepOwner(e.by),
                                      key |-> e.rec.stepId,
                                      payload |-> IF e.kind = "step" THEN e.rec
                                                  ELSE e.rec.candidates,
                                      outcome |-> "pending"])
       /\ \A s \in StepIds : steps'[s].pc = "done" => ~Waiting(StepOwner(s))']_vars

\* in synchronous mode a step at FULL has returned after its Step record and
\* its candidate batch were both submitted and answered
C25_Witness ==
  /\ ~cfg.enableAsyncIngestion /\ pendingSteps = <<>> /\ pendingCandidates = <<>>
  /\ \E s \in StepIds :
       /\ steps[s].pc = "done" /\ steps[s].outcome.kind = "ret"
       /\ \E i \in Submissions("step", s) : net[i].outcome = "ok"
       /\ \E j \in Submissions("candidates", s) :
            net[j].outcome = "ok" /\ net[j].payload = steps[s].opts.candidates.list

\* C26: with no endpoint configured no network call is ever made, nothing is
\* buffered and the client is never degraded; a step that has completed has
\* returned its stage function's result or raised its error, and a run that
\* has completed has called its stage function once and has returned its
\* result or raised its error.
C26_NoEndpointNoOp ==
  ~cfg.apiUrl =>
    /\ net = <<>> /\ pendingSteps = <<>> /\ pendingCandidates = <<>> /\ ~degraded
    /\ \A s \in StepIds : steps[s].pc = "done" => steps[s].outcome = steps[s].fnOutcome
    /\ \A r \in RunIds :
         Done(r) =>
           /\ runs[r].fnCalls = 1
           /\ runs[r].fnState = "returned" => runs[r].outcome = Ret(runs[r].result)
           /\ runs[r].fnState = "threw" => runs[r].outcome = Raise(StageError)
           /\ runs[r].fnState \in {"returned", "threw"}

\* without an endpoint a run whose step emitted a record and a candidate
\* batch has completed by raising its stage function's error
C26_Witness ==
  /\ ~cfg.apiUrl /\ net = <<>>
  /\ \E r \in RunIds : Done(r) /\ runs[r].outcome = Raise(StageError)
  /\ \E s \in StepIds :
       /\ steps[s].pc = "done" /\ InRun(s) /\ steps[s].outcome.kind = "ret"
       /\ Emissions(s, "step") # {} /\ Emissions(s, "candidates") # {}

----------------------------------------------------------------------------
\* Capture policy

\* C27: a Step record at capture level NONE carries no metrics and no
\* artifacts of the caller; a Step record at SUMMARY or FULL carries the
\* metrics and artifacts the caller supplied.
C27_NoneRecordsNoExtras ==
  \A i \in StepRecords :
    LET rec == emitted[i].rec
        extras == steps[emitted[i].by].opts.extras
    IN IF rec.captureLevel = "NONE"
       THEN rec.metrics = "{}" /\ rec.artifacts = Unset
       ELSE /\ extras.metrics # Unset => rec.metrics = extras.metrics
            /\ rec.artifacts = extras.artifacts

----------------------------------------------------------------------------
\* The backend store

\* C28: no two stored steps of the same run have the same position.
C28_PositionUniquePerRun ==
  \A a, b \in db.steps :
    a.run_id = b.run_id /\ a.position = b.position => a = b

HasFullStep(d, step_id) ==
  \E step \in d.steps : step.step_id = step_id /\ step.capture_level = "FULL"

\* C29: every stored candidate row references a stored step whose capture
\* level is FULL, and a POST /candidates for a step that is not stored, or is
\* stored at another level, is answered 404 or 400 and leaves the store
\* unchanged.
C29_CandidatesOnlyForFullSteps ==
  /\ \A k \in DOMAIN db.candidates : HasFullStep(db, db.candidates[k].step_id)
  /\ \A body \in CandidateBodies :
       ~HasFullStep(db, body.step_id) =>
         /\ postCandidates(db, body).db = db
         /\ postCandidates(db, body).status \in {400, 404}

\* the store holds a step at SUMMARY, and MaxRows candidate rows of a step at
\* FULL
C29_Witness ==
  /\ Len(db.candidates) = MaxRows
  /\ \E step \in db.steps : step.capture_level = "SUMMARY"
  /\ \E k \in DOMAIN db.candidates : HasFullStep(db, db.candidates[k].step_id)

SameIdentity(a, b) ==
  /\ a.run_id = b.run_id /\ a.pipeline_name = b.pipeline_name
  /\ a.pipeline_version = b.pipeline_version /\ a.environment = b.environment
  /\ a.started_at = b.started_at

\* C30: run_id is unique among the stored runs; a POST /runs with a complete
\* body creates the run when its run_id is not stored and otherwise updates
\* it, leaving the pipeline name, pipeline version, environment and start
\* time of every stored run as they were; and the same body posted a second
\* time leaves the store as the first left it.
C30_CreateOrUpdateRunIdempotent ==
  /\ \A a, b \in db.runs : a.run_id = b.run_id => a = b
  /\ \A body \in RunBodies :
       postRun(postRun(db, body).db, body).db = postRun(db, body).db
  /\ \A body \in CompleteRunBodies :
       LET reply == postRun(db, body)
       IN IF \E row \in db.runs : row.run_id = body.run_id
          THEN /\ reply.status = 200
               /\ Cardinality(reply.db.runs) = Cardinality(db.runs)
               /\ \A row \in db.runs : \E kept \in reply.db.runs : SameIdentity(row, kept)
          ELSE /\ reply.status = 201
               /\ reply.db.runs \ db.runs # {}
               /\ \A row \in reply.db.runs \ db.runs : row.run_id = body.run_id

\* a stored run for which a body with another pipeline name, another
\* environment and an end time is an update that changes the store
C30_Witness ==
  \E row \in db.runs, body \in CompleteRunBodies :
    /\ row.run_id = body.run_id /\ row.ended_at = SqlNull
    /\ body.pipeline_name # row.pipeline_name /\ body.environment = "dev"
    /\ row.environment = "prod" /\ body.ended_at # Unset
    /\ postRun(db, body).status = 200 /\ postRun(db, body).db # db

----------------------------------------------------------------------------
\* Runs that overlap on one client

\* C31: the client has one run context for all its runs: a step takes its
\* position from the one counter and the identifier of whatever run is
\* current at its call, and its Step record carries the identifier that is
\* current when the record is built, whichever stage function issued it.
C31_StepsFollowTheSharedContext ==
  [][\A s \in StepIds :
       /\ (steps[s].pc = "idle" /\ steps'[s].pc = "fn") =>
            /\ steps'[s].runAtCall = currentRunId
            /\ steps'[s].position = stepPosition
            /\ stepPosition' = stepPosition + 1
       /\ \A i \in DOMAIN emitted' \ DOMAIN emitted :
            (emitted'[i].kind = "step" /\ emitted'[i].by = s) =>
              /\ emitted'[i].rec.runId = currentRunId
              /\ emitted'[i].rec.position = steps[s].position]_vars

\* the stage function of run 1 issued a step (the stage function of run 2
\* was never called) and its Step record carries the identifier of run 2
C31_Witness ==
  /\ runs[1].fnCalls = 1 /\ runs[2].fnCalls = 0
  /\ \E i \in DOMAIN emitted :
       emitted[i].kind = "step" /\ emitted[i].rec.runId = 2

\* C32: every Step record carries the identifier of the run that was active
\* when its step was called, never null and never another run's.
C32_RecordCarriesRunAtCall ==
  \A i \in DOMAIN emitted :
    emitted[i].kind = "step" =>
      /\ emitted[i].rec.runId # Null
      /\ emitted[i].rec.runId = steps[emitted[i].by].runAtCall

----------------------------------------------------------------------------
\* Order of submissions

RunCreatedOutcome(r, outcome) ==
  \E j \in DOMAIN net :
    /\ net[j].kind = "run" /\ net[j].key = r /\ ~net[j].payload.ended
    /\ net[j].outcome = outcome

RecordFetches(r) ==
  {i \in DOMAIN net : /\ net[i].kind \in {"step", "candidates"}
                       /\ steps[net[i].key].runAtCall = r}

\* C33: with one run at a time, a Step record or candidate batch of a run
\* is given to the network only when the run-created submission of that run
\* has been answered ok; a run whose run-created submission failed has no
\* Step record or candidate batch submitted.
C33_RecordsAfterRunCreated ==
  [][/\ \A i \in DOMAIN net' \ DOMAIN net :
          net'[i].kind \in {"step", "candidates"} =>
            /\ steps'[net'[i].key].runAtCall # Null
            /\ RunCreatedOutcome(steps'[net'[i].key].runAtCall, "ok")
     /\ \A r \in RunIds : RunCreatedOutcome(r, "fail")' => RecordFetches(r)' = {}]_vars

\* a Step record and a candidate batch of run 1 were submitted after its
\* run-created submission was answered ok, and a later run whose run-created
\* submission failed has completed
C33_Witness ==
  /\ RunCreatedOutcome(1, "ok")
  /\ \E i, j \in RecordFetches(1) : net[i].kind = "step" /\ net[j].kind = "candidates"
  /\ \E r \in RunIds : Done(r) /\ RunCreatedOutcome(r, "fail") /\ RecordFetches(r) = {}

\* C34: a candidate batch is given to the network only when the submission
\* of the Step record with its stepId has been answered, and a candidate
\* batch sent by the end-of-run drain only when every Step submission of
\* that drain has been answered.
C34_CandidatesAfterTheirStep ==
  [][\A i \in DOMAIN net' \ DOMAIN net :
       net'[i].kind = "candidates" =>
         /\ \E j \in DOMAIN net :
              /\ net[j].kind = "step" /\ net[j].key = net'[i].key
              /\ net[j].outcome # "pending"
         /\ \A j \in DOMAIN net :
              (net[j].kind = "step" /\ net[j].owner = net'[i].owner) =>
                net[j].outcome # "pending"]_vars

\* a candidate batch was submitted after the submission of its Step record
\* had failed
C34_Witness ==
  \E i, j \in DOMAIN net :
    /\ j < i /\ net[i].kind = "candidates" /\ net[j].kind = "step"
    /\ net[j].key = net[i].key /\ net[j].outcome = "fail"

----------------------------------------------------------------------------
\* Degradation switched off

\* C35: with degradeOnError disabled the client is never degraded; with an
\* endpoint configured every call of run submits its run-created record and,
\* in synchronous mode, every emission is submitted, whatever failed before;
\* a completed step has returned its stage function's result or raised its
\* error, and a completed run one of whose run submissions failed has raised.
C35_NoDegradationWhenDisabled ==
  [][~cfg.degradeOnError =>
       /\ ~degraded'
       /\ \A r \in RunIds :
            (cfg.apiUrl /\ runs[r].pc = "idle" /\ runs'[r].pc # "idle") =>
              /\ Len(net') = Len(net) + 1
              /\ net'[Len(net')].kind = "run" /\ net'[Len(net')].key = r
       /\ (cfg.apiUrl /\ ~cfg.enableAsyncIngestion /\ emitted' # emitted) =>
            /\ Len(net') = Len(net) + 1
            /\ net'[Len(net')].kind = emitted'[Len(emitted')].kind
       /\ \A s \in StepIds :
            steps'[s].pc = "done" => steps'[s].outcome = steps'[s].fnOutcome
       /\ \A r \in RunIds :
            (Done(r)' /\ RunFetchFailed(r)') => runs'[r].outcome.kind = "raise"]_vars

\* with degradeOnError disabled a run raised because its run-created
\* submission failed, and the next run submitted its run-created record
C35_Witness ==
  /\ ~cfg.degradeOnError /\ ~degraded
  /\ \E q, r \in RunIds :
       /\ q < r /\ Done(q) /\ RunCreatedOutcome(q, "fail")
       /\ runs[q].outcome.kind = "raise"
       /\ \E j \in DOMAIN net : net[j].kind = "run" /\ net[j].key = r

\* C36: the capture level on every Step record, of a successful or of a
\* failing step, is the captureLevel option of the call when one was given
\* and the configured defaultCaptureLevel otherwise.
C36_EffectiveCaptureLevel ==
  \A i \in StepRecords :
    LET opts == steps[emitted[i].by].opts
    IN /\ opts.captureLevel # Unset => emitted[i].rec.captureLevel = opts.captureLevel
       /\ opts.captureLevel = Unset => emitted[i].rec.captureLevel = cfg.defaultCaptureLevel
       /\ emitted[i].rec.captureLevel = steps[emitted[i].by].captureLevel

\* the record of a failing step called with SUMMARY on a client whose
\* default is FULL carries SUMMARY
C36_Witness ==
  \E i \in StepRecords :
    /\ ~Succeeded(i) /\ cfg.defaultCaptureLevel = "FULL"
    /\ steps[emitted[i].by].opts.captureLevel = "SUMMARY"
    /\ emitted[i].rec.captureLevel = "SUMMARY"

\* C39: POST /api/v1/steps answers with an error status and leaves the store
\* as it was when the step type or the capture level is not one of the
\* enumerated values or when the referenced run is not stored; hence every
\* stored step references a stored run and has a valid type and level.
C39_StepRejectedOrWellFormed ==
  /\ \A body \in StepBodies :
        (\/ body.step_type \notin validStepTypes
         \/ body.capture_level \notin validCaptureLevels
         \/ ~\E run \in db.runs : run.run_id = body.run_id)
          => /\ postStep(db, body).db = db
             /\ postStep(db, body).status \in {400, 404}
  /\ \A step \in db.steps :
        /\ \E run \in db.runs : run.run_id = step.run_id
        /\ step.step_type \in validStepTypes
        /\ step.capture_level \in validCaptureLevels

\* a step of run 1 is stored while run 2 is not, so that a step body naming
\* run 2 is one of the rejected ones
C39_Witness ==
  /\ \E step \in db.steps : step.run_id = 1
  /\ ~\E run \in db.runs : run.run_id = 2
  /\ postStep(db, [AStepBody EXCEPT !.step_id = 2, !.run_id = 2]).status = 404

\* C37: when stage functions and fetches settle, every call of run settles:
\* in both ingestion modes the drain at the end of the run makes one pass over
\* the steps and one over the candidate batches that were buffered when it
\* began, and returns.
C37_EveryRunSettles == \A r \in RunIds : (runs[r].pc # "idle") ~> Done(r)

\* a run on an asynchronous client with an endpoint has settled after a drain
\* that left the step it had buffered in the queue again
C37_Witness ==
  /\ cfg.apiUrl /\ cfg.enableAsyncIngestion /\ ~degraded
  /\ Done(1) /\ runs[1].flushCalls = 1
  /\ \E i \in StepRecords : emitted[i].rec.runId = 1
  /\ Len(pendingSteps) > 0

\* the shared configuration after the partial configurations of `given`, the
\* later overriding the earlier field by field
RECURSIVE Accumulated(_)
Accumulated(given) ==
  IF given = <<>>
  THEN defaultConfig
  ELSE LET before == Accumulated(SubSeq(given, 1, Len(given) - 1))
           last == given[Len(given)]
       IN [f \in DOMAIN before |-> IF f \in DOMAIN last THEN last[f] ELSE before[f]]

\* a client that configure replaced has a run inside its stage function
OlderRunOpen ==
  \E k \in DOMAIN facade.retired :
    \E r \in RunIds : facade.retired[k].w.runs[r].pc = "fn"

\* C38: xray.configure leaves the facade with a new client that is not
\* degraded, has no active run and empty queues, and whose configuration is
\* the configuration accumulated so far overridden by the given fields, the
\* replaced client being left as it was; xray.step called afterwards, while
\* a run of a replaced client is inside its stage function and the new
\* client has started no run, is a pass-through of the new client that
\* submits and emits nothing.
C38_ConfigureReplacesTheClient ==
  [][/\ facade'.given # facade.given =>
          LET config == facade'.given[Len(facade'.given)]
          IN /\ ~degraded' /\ currentRunId' = Null /\ currentRun' = Null
             /\ pendingSteps' = <<>> /\ pendingCandidates' = <<>>
             /\ stepPosition' = 0
             /\ \A r \in RunIds : runs'[r].pc = "idle"
             /\ \A s \in StepIds : steps'[s].pc = "idle"
             /\ \A f \in DOMAIN cfg :
                  cfg'[f] = IF f \in DOMAIN config THEN config[f] ELSE cfg[f]
             /\ cfg = Accumulated(facade.given)
             /\ cfg' = Accumulated(facade'.given)
             /\ facade'.defaultConfig = cfg'
             /\ facade'.retired = Append(facade.retired, [config |-> cfg, w |-> W])
     /\ \A s \in StepIds :
          (/\ steps[s].pc = "idle" /\ steps'[s].pc # "idle"
           /\ OlderRunOpen /\ \A r \in RunIds : runs[r].pc = "idle") =>
            /\ steps'[s].pc = "pass" /\ ~InRun(s)'
            /\ UNCHANGED <<cfg, currentRunId, currentRun, stepPosition, degraded,
                           pendingSteps, pendingCandidates, net, emitted, facade>>
            /\ emitted = <<>> /\ net = <<>>]_vars

\* configure({apiUrl}) before a run, configure({enableAsyncIngestion: false})
\* inside its stage function, then a step: the step has passed through a
\* synchronous client with an endpoint, and nothing was emitted for it
C38_Witness ==
  /\ Len(facade.given) = 2
  /\ facade.given[1] = [apiUrl |-> TRUE]
  /\ facade.given[2] = [enableAsyncIngestion |-> FALSE]
  /\ facade.retired[2].config.apiUrl /\ facade.retired[2].config.enableAsyncIngestion
  /\ facade.retired[2].w.runs[1].pc = "fn"
  /\ cfg = [apiUrl |-> TRUE, enableAsyncIngestion |-> FALSE,
            degradeOnError |-> TRUE, defaultCaptureLevel |-> "NONE"]
  /\ \A r \in RunIds : runs[r].pc = "idle"
  /\ \E s \in StepIds : steps[s].pc = "done" /\ ~InRun(s)
  /\ emitted = <<>> /\ net = <<>>
====
